---- MODULE Spec2Model ----
(***************************************************************************)
(* The stdio bridge of desktop/src-tauri/src/main.rs: a Tauri application  *)
(* that spawns one python worker, keeps its Child handle in                *)
(* Backend.process (a Mutex<Option<Child>>), and exchanges one JSON line   *)
(* per request and per response with it.  The commands of the invoke       *)
(* handler run on separate threads (the callers); the worker is an         *)
(* external process that reads its stdin and writes its stdout as it       *)
(* pleases.                                                                *)
(***************************************************************************)
EXTENDS Integers, Sequences, FiniteSets, TLC

\* ---------------------------------------------------------------- bounds
NumCallers == 2        \* threads invoking commands concurrently
MaxInvocations == 2    \* command invocations in one run of the application
MaxProcs == 2          \* python processes that can be spawned in one run
MaxPipe == 1           \* response lines the stdout pipe holds unread

Callers == 1..NumCallers
Pids == 1..MaxProcs
NoPid == 0             \* Option<Child> = None
NoCaller == 0          \* the mutex is free

Absent == "absent"     \* Option::None of a field, a missing JSON key

\* ------------------------------------------------------------- requests
Commands ==
    {"init_backend", "add_documents", "ask_question", "remove_document",
     "record_and_transcribe"}

\* The BackendRequest each command builds (main.rs 113-118, 137-142,
\* 157-162, 185-190, 201-206).  The arguments are one fixed value each.
BackendRequest(cmd) ==
    CASE cmd = "init_backend" ->
           [command |-> "init", question |-> Absent, paths |-> Absent, name |-> Absent]
      [] cmd = "add_documents" ->
           [command |-> "add_documents", question |-> Absent, paths |-> "paths", name |-> Absent]
      [] cmd = "ask_question" ->
           [command |-> "ask", question |-> "question", paths |-> Absent, name |-> Absent]
      [] cmd = "remove_document" ->
           [command |-> "remove_document", question |-> Absent, paths |-> Absent, name |-> "name"]
      [] cmd = "record_and_transcribe" ->
           [command |-> "voice_input", question |-> Absent, paths |-> Absent, name |-> Absent]

\* Faulty variant: every field is serialised, a None as null.
to_string_with_nulls(request) == request

\* serde_json::to_string(&request) with skip_serializing_if = "Option::is_none":
\* the JSON object holds command and the optional fields that are Some.
to_string(request) ==
    [k \in {f \in DOMAIN request : f = "command" \/ request[f] # Absent} |-> request[k]]

\* ------------------------------------------------------------ responses
\* What the bytes of one line of the worker's stdout can be: bytes that are not UTF-8,
\* text that is not a BackendResponse, or a BackendResponse object.  data is
\* abstracted to: key absent (or null), a value of the shape the command
\* extracts ("good"), a value of another shape ("bad").
DataVals == {Absent, "good", "bad"}
ErrorVals == {Absent, "boom"}
Envelopes ==
    [kind : {"envelope"}, success : BOOLEAN, data : DataVals, error : ErrorVals]
NotUtf8 == [kind |-> "not_utf8", success |-> FALSE, data |-> Absent, error |-> Absent]
Garbage == [kind |-> "garbage", success |-> FALSE, data |-> Absent, error |-> Absent]
Empty == [kind |-> "empty", success |-> FALSE, data |-> Absent, error |-> Absent]
Bodies == Envelopes \cup {NotUtf8, Garbage}

\* Result<T, String>
Ok(v) == [ok |-> TRUE, val |-> v]
Err(msg) == [ok |-> FALSE, val |-> msg]
Pending == [ok |-> FALSE, val |-> "pending"]

\* reader.read_line(&mut line) (main.rs 76): Err when the bytes are not
\* UTF-8, otherwise Ok with the bytes read in line (none at end of file).
read_line(body) ==
    IF body.kind = "not_utf8" THEN Err("stream did not contain valid UTF-8")
    ELSE Ok(body)

\* serde_json::from_str(&line) (main.rs 78): a BackendResponse, or the
\* "Parse error: .. - Response: .." string.  The empty line read at end of
\* file does not parse.
from_str(body) ==
    IF body.kind = "envelope"
    THEN Ok([success |-> body.success, data |-> body.data, error |-> body.error])
    ELSE Err("Parse error")

\* ------------------------------------------------------ command results
\* The message each command substitutes when the envelope has no error
\* (main.rs 131, 151, 179, 195, 215).
DefaultMessage(cmd) ==
    CASE cmd = "init_backend" -> "Init failed"
      [] cmd = "add_documents" -> "Failed to add documents"
      [] cmd = "ask_question" -> "Failed to get answer"
      [] cmd = "remove_document" -> "Failed to remove"
      [] cmd = "record_and_transcribe" -> "Voice input failed"

\* What a command makes of response.data when success is true: the
\* extracted value when data has the expected shape, and the default of
\* unwrap_or / unwrap_or_default when data is absent or of another shape
\* (main.rs 121-129, 145-149, 165-177, 193, 209-213).
Extract(cmd, data) ==
    CASE cmd = "init_backend" ->
           IF data = "good" THEN "ready, documents" ELSE "ready, no documents"
      [] cmd = "add_documents" ->
           IF data = "good" THEN "documents" ELSE "no documents"
      [] cmd = "ask_question" ->
           IF data = "good" THEN "answer" ELSE "No answer"
      [] cmd = "remove_document" -> "()"
      [] cmd = "record_and_transcribe" ->
           IF data = "good" THEN "transcription" ELSE ""

\* Faulty variant: a success envelope that carries an error is treated as a failure.
shape_response_reads_error(cmd, env) ==
    IF env.success /\ env.error = Absent
    THEN Ok(Extract(cmd, env.data))
    ELSE Err(IF env.error = Absent THEN DefaultMessage(cmd) ELSE env.error)

\* The branch `if response.success { Ok(..) } else { Err(..) }` of every
\* command (main.rs 120-132, 144-152, 164-180, 192-196, 208-216).
shape_response(cmd, env) ==
    IF env.success
    THEN Ok(Extract(cmd, env.data))
    ELSE Err(IF env.error = Absent THEN DefaultMessage(cmd) ELSE env.error)

\* `send_to_backend(..)?` followed by the branch above: an Err of
\* send_to_backend is the command's Err.
command_result(cmd, response) ==
    IF response.ok THEN shape_response(cmd, response.val) ELSE response

\* ------------------------------------------- results, field by field
\* The same branch with data taken apart: the sub-fields of data each
\* command reads (main.rs 122-123, 146-147, 167, 172, 174, 209).
DataFields(cmd) ==
    CASE cmd = "init_backend" -> {"documents"}
      [] cmd = "add_documents" -> {"documents"}
      [] cmd = "ask_question" -> {"answer", "sources", "confidence"}
      [] cmd = "remove_document" -> {}
      [] cmd = "record_and_transcribe" -> {"transcription"}

AllDataFields == {"documents", "answer", "sources", "confidence", "transcription"}

\* A sub-field of data is missing, holds a value of the type the command
\* decodes (a list of Document or of Source, a string, a number), or holds a
\* value of another type.
FieldVals == {Absent, "value", "mistyped"}

\* Option<serde_json::Value>: None (key missing or null), or an object.
DataObjects == [present : BOOLEAN, fields : [AllDataFields -> FieldVals]]

\* The default each sub-field falls back to (main.rs 123, 147, 169, 172,
\* 176, 211; unwrap_or_default of a Vec is the empty list).
FieldDefault(f) ==
    CASE f = "documents" -> "[]"
      [] f = "sources" -> "[]"
      [] f = "answer" -> "No answer"
      [] f = "confidence" -> "0.0"
      [] f = "transcription" -> ""

\* Option::unwrap_or.
unwrap_or(v, default) == IF v = Absent THEN default ELSE v

\* response.data.unwrap_or(json!({})) then data.get(f): None when data is
\* None or has no key f.
get(data, f) == IF data.present THEN data.fields[f] ELSE Absent

\* v.as_str(), v.as_f64() and serde_json::from_value(v).ok(): Some only for
\* a value of the type asked for.
as_typed(v) == IF v = "value" THEN v ELSE Absent

\* One sub-field of the result: get, decode, fall back (main.rs 122-124,
\* 146-148, 167-176, 209-212).
extract_field(data, f) == unwrap_or(as_typed(get(data, f)), FieldDefault(f))

\* The Ok value of a command, sub-field by sub-field.
extract_fields(cmd, data) == [f \in DataFields(cmd) |-> extract_field(data, f)]

\* The branch on response.success with data taken apart.
shape_fields(cmd, env) ==
    IF env.success
    THEN Ok(extract_fields(cmd, env.data))
    ELSE Err(IF env.error = Absent THEN DefaultMessage(cmd) ELSE env.error)

\* ---------------------------------------------------------------- state
VARIABLES
    app_running,   \* main() is inside tauri's run loop
    process,       \* Backend.process: the pid of the stored Child, or NoPid
    lock,          \* the caller holding the mutex of Backend.process, or NoCaller
    status,        \* per pid: "unspawned", "running", "exited"
    stdin,         \* per pid: how many request lines were written to its stdin
    stdout,        \* per pid: how many complete lines wait unread in its stdout pipe
    tail,          \* per pid: unterminated bytes wait at the end of its stdout
    taken,         \* per pid: how many complete lines readers took from its stdout
    pc,            \* per caller: where its command invocation is
    command,       \* per caller: the command it is running
    child,         \* per caller: init_backend's local `child`
    sent,          \* per caller: the request lines this invocation has written
    returned,      \* what the last step returned to the front end, if it did
    invocations    \* command invocations started so far

vars ==
    <<app_running, process, lock, status, stdin, stdout, tail, taken, pc,
      command, child, sent, returned, invocations>>

callerVars == <<pc, command, child, sent>>
workerVars == <<status, stdin, stdout, tail, taken>>

NoReturn ==
    [command |-> "none", sent |-> << >>, response |-> Pending, result |-> Pending]

\* main() (main.rs 219-223): the managed Backend holds no process.
Init ==
    /\ app_running = TRUE
    /\ process = NoPid
    /\ lock = NoCaller
    /\ status = [p \in Pids |-> "unspawned"]
    /\ stdin = [p \in Pids |-> 0]
    /\ stdout = [p \in Pids |-> 0]
    /\ tail = [p \in Pids |-> FALSE]
    /\ taken = [p \in Pids |-> 0]
    /\ pc = [c \in Callers |-> "idle"]
    /\ command = [c \in Callers |-> "none"]
    /\ child = [c \in Callers |-> NoPid]
    /\ sent = [c \in Callers |-> << >>]
    /\ returned = NoReturn
    /\ invocations = 0

\* -------------------------------------------------------------- helpers
Spawned == {p \in Pids : status[p] # "unspawned"}
Running == {p \in Pids : status[p] = "running"}

\* The pids whose Child handle the application still holds: the stored one
\* and the locals of init_backend calls between spawn and store.  The pipes
\* of any other process are closed on the application's side.
Held ==
    IF app_running
    THEN ({process} \cup {child[c] : c \in Callers}) \ {NoPid}
    ELSE {}

\* Faulty variant: the mutex does not exclude.
mutex_free_unlocked == TRUE

\* backend.process.lock() (main.rs 62, 108) returns when no thread holds
\* the mutex.  No code panics while holding it, so it is never poisoned.
mutex_free == lock = NoCaller

\* Faulty variant: the Option is not checked before the write.
write_outcome_unchecked ==
    CASE process # NoPid /\ status[process] = "running" -> "written"
      [] OTHER -> "write_error"

\* Lines 64-70 of send_to_backend under the lock: ok_or("Backend not
\* started") on the Option, then writeln! and flush on the child's stdin,
\* which fail with a broken pipe once the worker has exited.  stdin is
\* Stdio::piped() and never taken, so ok_or("No stdin") never fails.
write_outcome ==
    CASE process = NoPid -> "not_started"
      [] process # NoPid /\ status[process] = "running" -> "written"
      [] OTHER -> "write_error"

\* Faulty variant: a write that fails clears the stored handle.
handle_after_call_cleared(outcome) ==
    IF outcome = "write_error" THEN NoPid ELSE process

\* send_to_backend only borrows the Child (proc_guard.as_mut(), main.rs 64):
\* whatever the outcome of the call, the Option is not assigned.
handle_after_call(outcome) == process

\* Faulty variant: the guard is released once the request is written.
lock_after_write_released(c) == NoCaller

\* proc_guard lives to the end of send_to_backend (main.rs 62-79): after the
\* write the caller still holds the mutex.
lock_after_write(c) == c

\* Faulty variant: a call that fails returns without releasing the mutex.
guard_dropped_on_ok(c, response) == IF response.ok THEN NoCaller ELSE c

\* Every return of send_to_backend, the `?` returns of lines 64-78 and the
\* final expression alike, drops the local proc_guard and frees the mutex.
guard_dropped(c, response) == NoCaller

\* Faulty variant: the guard of the store block is still held after it.
lock_after_store_kept(c) == c

\* The guard `proc` of init_backend lives in the block of lines 107-110 and
\* is dropped at its end, before send_to_backend is called on line 113.
lock_after_store(c) == NoCaller

\* The worker's end of the stdout pipe of p is closed: it has exited.
out_closed(p) == status[p] = "exited"

\* What waits in the stdout pipe of p: its complete lines and the
\* unterminated bytes before the end of the stream.
Available(p) == stdout[p] + (IF tail[p] THEN 1 ELSE 0)

\* How much of it BufReader::new(stdout) takes in one read_line before it
\* is dropped (main.rs 74-76): the line returned, and whatever else was in
\* the pipe that its buffer had room for.
BufReaderTakes(p) ==
    IF Available(p) = 0 THEN {0} ELSE 1..Available(p)

\* Faulty variant: the read gives up when nothing has arrived.
read_line_times_out(p) == TRUE

\* read_line on the stdout of p (main.rs 76) returns once a line or the end
\* of the stream is there; until then it blocks, with no timeout.
read_line_returns(p) == Available(p) > 0 \/ out_closed(p)

\* The bytes read_line returns from p when the worker wrote `body` first:
\* nothing at the end of an empty stream.
line_read(p, body) ==
    IF Available(p) = 0 THEN Empty ELSE body

\* Lines 76-78: read_line(..).map_err(..)? then serde_json::from_str.
read_outcome(line) ==
    IF read_line(line).ok THEN from_str(read_line(line).val) ELSE read_line(line)

\* ----------------------------------------------------- command handlers
\* The thread a new invocation runs on.  The threads of the runtime's pool
\* are interchangeable, so the free one with the lowest number is taken.
FreeThread(c) ==
    /\ pc[c] = "idle"
    /\ \A d \in Callers : pc[d] = "idle" => c <= d

\* The command returns r to the front end; its thread is free again.
Return(c, cmd, response, r) ==
    /\ returned' = [command |-> cmd, sent |-> sent[c], response |-> response,
                    result |-> r]
    /\ pc' = [pc EXCEPT ![c] = "idle"]
    /\ command' = [command EXCEPT ![c] = "none"]
    /\ sent' = [sent EXCEPT ![c] = << >>]

\* Faulty variant: a failed send_to_backend is tried again.
command_return_retry(c, response) ==
    IF response.ok
    THEN Return(c, command[c], response, command_result(command[c], response))
    ELSE /\ pc' = [pc EXCEPT ![c] = "lock"]
         /\ returned' = NoReturn
         /\ UNCHANGED <<command, sent>>

\* send_to_backend returns `response` (its caller here drops the guard) and
\* the command's own code runs to its end (main.rs 118-132, 142-152,
\* 162-180, 190-196, 206-216): nothing of it is shared state.
command_return(c, response) ==
    Return(c, command[c], response, command_result(command[c], response))

\* The invoke handler (main.rs 227-233) runs add_documents, ask_question,
\* remove_document or record_and_transcribe on a thread: the command builds
\* its request and calls send_to_backend (main.rs 137, 157, 185, 201).
Invoke(c, cmd) ==
    /\ app_running
    /\ FreeThread(c)
    /\ cmd # "init_backend"
    /\ invocations < MaxInvocations
    /\ invocations' = invocations + 1
    /\ command' = [command EXCEPT ![c] = cmd]
    /\ pc' = [pc EXCEPT ![c] = "lock"]
    /\ returned' = NoReturn
    /\ UNCHANGED <<app_running, process, lock, workerVars, child, sent>>

\* The invoke handler runs init_backend, main.rs 84-104: the project root
\* is computed and python3 is spawned with piped stdin and stdout; either
\* can fail, and the `?` returns the error.
init_backend(c, outcome) ==
    /\ app_running
    /\ FreeThread(c)
    /\ invocations < MaxInvocations
    /\ invocations' = invocations + 1
    /\ \/ /\ outcome = "spawned"
          /\ Cardinality(Spawned) < MaxProcs
          /\ LET p == Cardinality(Spawned) + 1 IN
               /\ status' = [status EXCEPT ![p] = "running"]
               /\ child' = [child EXCEPT ![c] = p]
          /\ command' = [command EXCEPT ![c] = "init_backend"]
          /\ pc' = [pc EXCEPT ![c] = "store"]
          /\ returned' = NoReturn
          /\ UNCHANGED sent
       \/ /\ outcome \in {"No parent dir", "Failed to start Python"}
          /\ Return(c, "init_backend", Pending, Err(outcome))
          /\ UNCHANGED <<status, child>>
    /\ UNCHANGED <<app_running, process, lock, stdin, stdout, tail, taken>>

\* init_backend, main.rs 107-110: lock, *proc = Some(child), unlock.  The
\* Child stored before is dropped: its pipes are closed on this side, and
\* the process itself is neither killed nor waited for.
init_store(c) ==
    /\ app_running
    /\ pc[c] = "store"
    /\ mutex_free
    /\ process' = child[c]
    /\ lock' = lock_after_store(c)
    /\ child' = [child EXCEPT ![c] = NoPid]
    /\ stdout' = [p \in Pids |-> IF p = process THEN 0 ELSE stdout[p]]
    /\ tail' = [p \in Pids |-> IF p = process THEN FALSE ELSE tail[p]]
    /\ pc' = [pc EXCEPT ![c] = "lock"]
    /\ returned' = NoReturn
    /\ UNCHANGED <<app_running, status, stdin, taken, command, sent, invocations>>

\* send_to_backend, main.rs 62-70: the mutex is acquired, and under it the
\* Option is checked and the request line written and flushed.  An error
\* returns from the function and drops the guard; after the write the
\* caller keeps the guard and goes on to read.
send_to_backend(c) ==
    /\ app_running
    /\ pc[c] = "lock"
    /\ mutex_free
    /\ \/ /\ write_outcome = "written"
          /\ stdin' = [stdin EXCEPT ![process] = @ + 1]
          /\ sent' = [sent EXCEPT ![c] =
                        Append(@, [pid |-> process, n |-> stdin[process] + 1,
                                   json |-> to_string(BackendRequest(command[c]))])]
          /\ lock' = lock_after_write(c)
          /\ pc' = [pc EXCEPT ![c] = "read"]
          /\ returned' = NoReturn
          /\ UNCHANGED command
       \/ /\ write_outcome = "not_started"
          /\ command_return(c, Err("Backend not started"))
          /\ lock' = guard_dropped(c, Err("Backend not started"))
          /\ UNCHANGED stdin
       \/ /\ write_outcome = "write_error"
          /\ command_return(c, Err("Broken pipe"))
          /\ lock' = guard_dropped(c, Err("Broken pipe"))
          /\ UNCHANGED stdin
    /\ process' = handle_after_call(write_outcome)
    /\ UNCHANGED <<app_running, status, stdout, tail, taken, child, invocations>>

\* send_to_backend, main.rs 73-78: a new BufReader on the child's stdout,
\* one read_line, which blocks until a newline or the end of the stream,
\* then the line is parsed; the function returns and drops the reader and
\* the guard.  `body` is what the worker wrote first of what waits in the
\* pipe, and k how much of the pipe the reader took.
read_response(c, k, body) ==
    /\ app_running
    /\ pc[c] = "read"
    /\ read_line_returns(process)
    /\ k \in BufReaderTakes(process)
    /\ Available(process) = 0 => body = Empty
    /\ Available(process) > 0 => body \in Bodies
    /\ command_return(c, read_outcome(line_read(process, body)))
    /\ stdout' = [stdout EXCEPT ![process] = IF k <= @ THEN @ - k ELSE 0]
    /\ tail' = [tail EXCEPT ![process] = @ /\ k <= stdout[process]]
    /\ taken' = [taken EXCEPT ![process] =
                   @ + (IF k <= stdout[process] THEN k ELSE stdout[process])]
    /\ lock' = guard_dropped(c, read_outcome(line_read(process, body)))
    /\ UNCHANGED <<app_running, process, status, stdin, child, invocations>>

\* main(), main.rs 234-235: the run loop ends and the application exits.
\* Its threads end and its ends of the pipes are closed.  Nothing kills or
\* waits for a spawned process: the handle is a std::process::Child behind
\* a Mutex, and neither Backend nor Child has a Drop that does.
Shutdown ==
    /\ app_running
    /\ app_running' = FALSE
    /\ lock' = NoCaller
    /\ stdout' = [p \in Pids |-> 0]
    /\ tail' = [p \in Pids |-> FALSE]
    /\ pc' = [c \in Callers |-> "idle"]
    /\ command' = [c \in Callers |-> "none"]
    /\ child' = [c \in Callers |-> NoPid]
    /\ sent' = [c \in Callers |-> << >>]
    /\ returned' = NoReturn
    /\ UNCHANGED <<process, status, stdin, taken, invocations>>

\* ------------------------------------------------------------ the worker
\* The python process writes one line to its stdout.  What the line says
\* is in `body` of read_response: nothing looks at it before it is read.
worker_write(p) ==
    /\ p \in Running \cap Held
    /\ stdout[p] < MaxPipe
    /\ stdout' = [stdout EXCEPT ![p] = @ + 1]
    /\ returned' = NoReturn
    /\ UNCHANGED <<app_running, process, lock, status, stdin, tail, taken,
                   callerVars, invocations>>

\* The python process exits (or crashes) and its pipes are closed, with or
\* without bytes of an unterminated last line written before.
worker_exit(p, partial) ==
    /\ p \in Running
    /\ partial => p \in Held
    /\ status' = [status EXCEPT ![p] = "exited"]
    /\ tail' = [tail EXCEPT ![p] = partial]
    /\ returned' = NoReturn
    /\ UNCHANGED <<app_running, process, lock, stdin, stdout, taken,
                   callerVars, invocations>>

\* --------------------------------------------------------- specification
Next ==
    \/ \E c \in Callers, cmd \in Commands : Invoke(c, cmd)
    \/ \E c \in Callers, o \in {"spawned", "No parent dir", "Failed to start Python"} :
         init_backend(c, o)
    \/ \E c \in Callers : init_store(c)
    \/ \E c \in Callers : send_to_backend(c)
    \/ \E c \in Callers, k \in 0..(MaxPipe + 1), body \in Bodies \cup {Empty} :
         read_response(c, k, body)
    \/ Shutdown
    \/ \E p \in Pids : worker_write(p)
    \/ \E p \in Pids, partial \in BOOLEAN : worker_exit(p, partial)

Spec == Init /\ [][Next]_vars

\* --------------------------------------- with a worker that keeps step
\* The response lines worker p has written so far: those taken by readers
\* and those still in the pipe.
Answered(p) == taken[p] + stdout[p]

\* Worker p has read a request line it has not answered yet.
Owes(p) == Answered(p) < stdin[p]

\* The worker answers the oldest request it has not answered with one line.
worker_answer(p) == Owes(p) /\ worker_write(p)

\* The worker exits between two requests, leaving no bytes behind.
worker_quit(p) == ~Owes(p) /\ worker_exit(p, FALSE)

\* The application with a worker that writes exactly one line per request
\* line, in order, and nothing else.
FifoNext ==
    \/ \E c \in Callers, cmd \in Commands : Invoke(c, cmd)
    \/ \E c \in Callers, o \in {"spawned", "No parent dir", "Failed to start Python"} :
         init_backend(c, o)
    \/ \E c \in Callers : init_store(c)
    \/ \E c \in Callers : send_to_backend(c)
    \/ \E c \in Callers, k \in 0..(MaxPipe + 1), body \in Bodies \cup {Empty} :
         read_response(c, k, body)
    \/ Shutdown
    \/ \E p \in Pids : worker_answer(p)
    \/ \E p \in Pids : worker_quit(p)

FifoSpec == Init /\ [][FifoNext]_vars

\* The steps of the thread of caller c after its command has started.
CallerStep(c) ==
    \/ init_store(c)
    \/ send_to_backend(c)
    \/ \E k \in 0..(MaxPipe + 1), body \in Bodies \cup {Empty} :
         read_response(c, k, body)

\* Fair scheduling: a thread that can go on with its command does so, and
\* the worker answers what it owes.
Fairness ==
    /\ \A c \in Callers : WF_vars(CallerStep(c))
    /\ \A p \in Pids : WF_vars(worker_answer(p))

FairFifoSpec == FifoSpec /\ Fairness

\* ------------------------------------- the success branch on its own
\* A command whose send_to_backend has returned the envelope env: the
\* sub-fields the command does not read are left out of data.
ShapeEnvelopes(cmd) ==
    {e \in [success : BOOLEAN, data : DataObjects, error : ErrorVals] :
       \A f \in AllDataFields \ DataFields(cmd) : e.data.fields[f] = Absent}

ShapeInputs ==
    UNION {{[command |-> cmd, sent |-> << >>, response |-> Ok(env), result |-> Pending] :
              env \in ShapeEnvelopes(cmd)} : cmd \in Commands}

ShapeInit ==
    /\ app_running = TRUE
    /\ process = NoPid
    /\ lock = NoCaller
    /\ status = [p \in Pids |-> "unspawned"]
    /\ stdin = [p \in Pids |-> 0]
    /\ stdout = [p \in Pids |-> 0]
    /\ tail = [p \in Pids |-> FALSE]
    /\ taken = [p \in Pids |-> 0]
    /\ pc = [c \in Callers |-> "idle"]
    /\ command = [c \in Callers |-> "none"]
    /\ child = [c \in Callers |-> NoPid]
    /\ sent = [c \in Callers |-> << >>]
    /\ returned \in ShapeInputs
    /\ invocations = 0

\* The command runs its branch on response.success once.
shape_apply ==
    /\ invocations = 0
    /\ invocations' = 1
    /\ returned' = [returned EXCEPT
                      !.result = shape_fields(returned.command, returned.response.val)]
    /\ UNCHANGED <<app_running, process, lock, workerVars, callerVars>>

ShapeNext == shape_apply

ShapeSpec == ShapeInit /\ [][ShapeNext]_vars

\* ================================================================ claims
\* A caller between its write and the end of its read.
Exchanging == {c \in Callers : pc[c] = "read"}

\* The step in which caller c, waiting for the mutex, makes its call of
\* send_to_backend (and the application is not shut down instead).
Calls(c) == pc[c] = "lock" /\ pc'[c] # "lock" /\ app_running'

\* The step in which caller c ends its read and returns.
EndsRead(c) == pc[c] = "read" /\ pc'[c] # "read" /\ app_running'

\* The command tag of each command, as the command surface fixes it.
ExpectedTag(cmd) ==
    CASE cmd = "init_backend" -> "init"
      [] cmd = "add_documents" -> "add_documents"
      [] cmd = "ask_question" -> "ask"
      [] cmd = "remove_document" -> "remove_document"
      [] cmd = "record_and_transcribe" -> "voice_input"
      [] OTHER -> "none"

\* C1: exchanges never interleave.  At most one caller is between its write
\* and the end of its read, that caller holds the mutex, and while it is
\* there no step writes to the stdin of any worker; a step that writes,
\* writes one whole line to one worker.
C1_NoInterleaving ==
    [][ /\ Exchanging # {} => stdin' = stdin
        /\ Cardinality(Exchanging') <= 1
        /\ \A c \in Exchanging' : lock' = c
        /\ stdin' # stdin =>
             \E p \in Pids : stdin' = [stdin EXCEPT ![p] = @ + 1] ]_vars

\* C1 witness: one caller is in its exchange while another waits for the mutex.
C1_Witness ==
    \E c, d \in Callers : c # d /\ pc[c] = "read" /\ pc[d] = "lock"

\* C2 as stated: a call made while the worker is not running (never stored,
\* or stored and since exited) fails with "Backend not started" and writes
\* nothing.
C2_NotRunningIsNotStarted ==
    [][ \A c \in Callers :
          (Calls(c) /\ (process = NoPid \/ status[process] # "running")) =>
             /\ returned'.result = Err("Backend not started")
             /\ returned'.sent = << >>
             /\ stdin' = stdin ]_vars

\* C2 amended: a call made while no worker handle is stored fails with
\* "Backend not started" and writes nothing.
C2_NoHandleIsNotStarted ==
    [][ \A c \in Callers :
          (Calls(c) /\ process = NoPid) =>
             /\ returned'.result = Err("Backend not started")
             /\ returned'.sent = << >>
             /\ stdin' = stdin ]_vars

\* C2 witness: a command has returned "Backend not started" with no line sent.
C2_Witness ==
    /\ returned.command \in Commands \ {"init_backend"}
    /\ returned.result = Err("Backend not started")
    /\ process = NoPid

\* C3: when the worker's stdout is closed and no complete line waits in it,
\* the pending read ends with an error for its caller and the mutex free.
C3_ClosedStreamFailsTheCall ==
    [][ \A c \in Callers :
          (EndsRead(c) /\ stdout[process] = 0 /\ out_closed(process)) =>
             /\ ~returned'.result.ok
             /\ lock' = NoCaller ]_vars

\* C4: when the worker's stdout is closed before any byte of a response
\* arrived, the call's error is a transport error and not the parse error.
C4_ClosedStreamIsTransportError ==
    [][ \A c \in Callers :
          (EndsRead(c) /\ Available(process) = 0 /\ out_closed(process)) =>
             /\ ~returned'.result.ok
             /\ returned'.result # Err("Parse error") ]_vars

\* C5: at most one spawned worker process is running.
C5_SingleWorker == Cardinality(Running) <= 1

\* C6: once a worker handle is stored, no step replaces it.
C6_HandleNeverReplaced == [][process # NoPid => process' = process]_vars

\* C7: after shutdown the process of the stored handle is not running.
C7_NoWorkerAfterShutdown ==
    (~app_running /\ process # NoPid) => status[process] # "running"

\* C8: with success = true the result is a success that is the same for
\* every error field; with success = false the result is the same for every
\* data field and is the failure carrying the error string, or the
\* command's default message when error is absent.
C8_ResultIgnoresOtherField ==
    returned.response.ok =>
      LET env == returned.response.val
          cmd == returned.command
      IN  /\ env.success =>
               /\ returned.result.ok
               /\ \A e \in ErrorVals :
                    returned.result = command_result(cmd, Ok([env EXCEPT !.error = e]))
          /\ ~env.success =>
               /\ \A d \in DataVals :
                    returned.result = command_result(cmd, Ok([env EXCEPT !.data = d]))
               /\ env.error # Absent => returned.result = Err(env.error)
               /\ env.error = Absent =>
                    /\ ~returned.result.ok
                    /\ returned.result.val \in
                         {"Init failed", "Failed to add documents", "Failed to get answer",
                          "Failed to remove", "Voice input failed"}
                    /\ \A d \in Commands :
                         (d # cmd) => DefaultMessage(d) # returned.result.val

\* C8 witness: a command has returned on a success envelope that carries
\* an error string.
C8_Witness ==
    /\ returned.response.ok
    /\ returned.response.val.success
    /\ returned.response.val.error # Absent

\* C9: an invocation writes at most one request line, with its command's tag.
C9_OneRequestPerInvocation ==
    /\ \A c \in Callers :
         /\ Len(sent[c]) <= 1
         /\ \A i \in 1..Len(sent[c]) :
              sent[c][i].json.command = ExpectedTag(command[c])
    /\ Len(returned.sent) <= 1
    /\ \A i \in 1..Len(returned.sent) :
         returned.sent[i].json.command = ExpectedTag(returned.command)

\* C9 witness: an invocation that wrote its request has failed.
C9_Witness ==
    /\ Len(returned.sent) = 1
    /\ ~returned.result.ok
    /\ returned.command # "none"

\* C10: an invocation on a non-success path (send_to_backend failed, the
\* envelope says success = false, or data has not the shape the command
\* expects) returns an error.
C10_NoErrorSwallowed ==
    (returned.command # "none" /\
       (\/ ~returned.response.ok
        \/ ~returned.response.val.success
        \/ (returned.command # "remove_document" /\ returned.response.val.data = "bad")))
      => ~returned.result.ok

\* C11: for a success envelope every sub-field the command reads comes back
\* as its default when it is absent from data (or data is absent), and as
\* the worker sent it when it is present.
C11_DefaultsAndUnchanged ==
    (invocations = 1 /\ returned.response.val.success) =>
       \A f \in DataFields(returned.command) :
          LET v == get(returned.response.val.data, f) IN
            returned.result.val[f] = IF v = Absent THEN FieldDefault(f) ELSE v

\* The keys the wire format gives the request of each command tag.
RelevantKeys(tag) ==
    CASE tag = "init" -> {"command"}
      [] tag = "voice_input" -> {"command"}
      [] tag = "add_documents" -> {"command", "paths"}
      [] tag = "ask" -> {"command", "question"}
      [] tag = "remove_document" -> {"command", "name"}
      [] OTHER -> {}

\* C12: every request line written carries the tag of its command and
\* exactly the keys relevant to it, none of them with a null value.
C12_ExactlyRelevantKeys ==
    \A c \in Callers : \A i \in 1..Len(sent[c]) :
       LET json == sent[c][i].json IN
         /\ json.command = ExpectedTag(command[c])
         /\ DOMAIN json = RelevantKeys(json.command)
         /\ \A k \in DOMAIN json : json[k] # Absent

\* C12 witness: a command with an argument has returned after writing its
\* line, which holds command and the one field of that argument.
C12_Witness ==
    /\ returned.command \in {"add_documents", "ask_question", "remove_document"}
    /\ returned.sent # << >>
    /\ Cardinality(DOMAIN returned.sent[1].json) = 2
\* C13: with a worker that writes one line per request, in order, the line
\* a caller reads is the answer to its own request: it was written by the
\* process the request went to and has the request's number among that
\* process's lines, and it is what the caller's command is given.
C13_OwnResponse ==
    [][ \A c \in Callers :
          EndsRead(c) =>
             /\ Len(sent[c]) = 1
             /\ sent[c][1].pid = process
             /\ Available(process) > 0
             /\ taken[process] + 1 = sent[c][1].n
             /\ returned'.command = command[c]
             /\ returned'.sent = sent[c] ]_vars

\* C13 witness: a caller has been given the answer to the second request of
\* a worker, whose first exchange came before.
C13_Witness ==
    /\ returned.response.ok
    /\ returned.sent # << >>
    /\ returned.sent[1].n = 2
    /\ taken[returned.sent[1].pid] = 2
\* C14: a read that finds a complete line takes that line and nothing more
\* out of the worker's stdout: the lines and bytes behind it stay there for
\* the next read.
C14_TakesExactlyOneLine ==
    [][ \A c \in Callers :
          (EndsRead(c) /\ stdout[process] > 0) =>
             /\ stdout'[process] = stdout[process] - 1
             /\ tail'[process] = tail[process] ]_vars
\* C15: the mutex is held only by a caller inside send_to_backend, between
\* its write and the end of its read; once a call has returned, on whatever
\* path, and no call is in progress, the mutex is free.
C15_LockFreeOutsideCalls ==
    /\ lock # NoCaller => pc[lock] = "read"
    /\ Exchanging = {} => mutex_free

\* C15 witness: a call that wrote its request has failed, the mutex is free
\* and the next caller is about to take it.
C15_Witness ==
    /\ returned.sent # << >>
    /\ ~returned.response.ok
    /\ mutex_free
    /\ \E d \in Callers : pc[d] = "lock"
\* Caller c has written its request and waits in read_line, and the worker
\* has neither written anything nor closed its stdout.
Unanswered(c) ==
    pc[c] = "read" /\ Available(process) = 0 /\ ~out_closed(process)

\* C16: while a caller waits for a worker that neither answers nor closes
\* its output, no step of the running application returns that call,
\* writes another request, returns from another exchange or changes the
\* stored handle; the caller keeps the mutex.
C16_NoTimeout ==
    [][ \A c \in Callers :
          (Unanswered(c) /\ app_running') =>
             /\ pc'[c] = "read"
             /\ lock' = c
             /\ process' = process
             /\ stdin' = stdin
             /\ returned'.sent = << >> ]_vars

\* C16 witness: a caller waits for a silent worker while an init_backend
\* waits to store its new process and cannot.
C16_Witness ==
    \E c, d \in Callers : Unanswered(c) /\ pc[d] = "store" /\ lock = c
\* The errors of an init_backend whose spawn did not happen (main.rs 84-89,
\* 104).
SpawnFailures == {Err("No parent dir"), Err("Failed to start Python")}

\* C17: the stored handle changes only in the store of an init_backend that
\* has spawned a process, and then to that process; the calls of the other
\* commands leave it as it was on every outcome, and an init_backend whose
\* spawn fails returns the error having written nothing and stored nothing.
C17_HandleChangesOnlyOnSpawn ==
    [][ /\ process' # process =>
             \E c \in Callers :
                /\ pc[c] = "store" /\ pc'[c] = "lock"
                /\ command[c] = "init_backend"
                /\ child[c] \in Spawned
                /\ process' = child[c]
        /\ \A c \in Callers :
             ((Calls(c) \/ EndsRead(c)) /\ command[c] # "init_backend") =>
                process' = process
        /\ returned'.result \in SpawnFailures =>
             /\ returned'.command = "init_backend"
             /\ returned'.sent = << >>
             /\ stdin' = stdin
             /\ process' = process ]_vars

\* C17 witness: an init_backend has just failed to spawn while the handle
\* of an earlier one is stored.
C17_Witness ==
    /\ returned.result \in SpawnFailures
    /\ process # NoPid
\* C18: under fair scheduling and with a worker that answers every request
\* line with one line, every command invocation that has started returns
\* (or the application exits).
C18_EveryInvocationReturns ==
    \A c \in Callers : (pc[c] # "idle") ~> (pc[c] = "idle")

\* C18 witness: an init_backend that has stored its process waits for the
\* mutex, which another caller holds while it waits for the worker.
C18_Witness ==
    \E c, d \in Callers :
       /\ pc[c] = "lock" /\ command[c] = "init_backend"
       /\ pc[d] = "read" /\ lock = d
\* An init_backend of caller c has stored the process it spawned and has
\* not yet written its init request.
StoredNotSent(c) == pc[c] = "lock" /\ command[c] = "init_backend"

\* C19: from the store of an init_backend to the write of its init request
\* no other caller's step replaces the stored handle or writes a request,
\* so the init line goes to the process this call spawned and is the first
\* line that process receives.
C19_InitAtomic ==
    [][ \A c \in Callers :
          (StoredNotSent(c) /\ pc'[c] = "lock") =>
             /\ process' = process
             /\ stdin' = stdin ]_vars

====
